---- MODULE Spec2Model ----
(***************************************************************************)
(* INEX Agent: the conversation orchestration of src/src/App.tsx.          *)
(*                                                                         *)
(* Money is counted in units of 1e-10 dollar, so that every price of the   *)
(* code (0.0000025 per tool token, 0.075/1e6 per prompt token, the 1.1     *)
(* markup) is an integer; floating-point rounding is not modelled.         *)
(* Strings are TLA+ strings: Len is the character count, \o concatenation. *)
(* An optional field (pendingToolCall?, toolResult?, tokens?, cost?) is a  *)
(* sequence of length 0 or 1.                                              *)
(***************************************************************************)
EXTENDS Integers, Sequences, FiniteSets, TLC

VARIABLES
    messages,       \* conversations[activeId].messages
    mode,           \* conversations[activeId].mode ("manual" when undefined)
    balance,        \* useState balance
    isLoading,      \* useState isLoading
    abortRef,       \* abortControllerRef.current: <<>> (null) or <<controller>>
    abortedCtrls,   \* the controllers whose signal.aborted is true
    procs,          \* the suspended async activations (runAI, handleApproveTool)
    nextId,         \* source of fresh message / controller ids
    keys,           \* settings.apiKeys: which capabilities have a caller key
    execLog,        \* history: the tool calls executeToolLogic was entered for
    debitLog,       \* history: every debit applied to the balance
    balance0,       \* history: the balance at start
    limit,          \* the bounds of the run: [msgs, execs]
    prefs           \* settings.preferences

vars == <<messages, mode, balance, isLoading, abortRef, abortedCtrls, procs,
          nextId, keys, execLog, debitLog, balance0, limit, prefs>>

-----------------------------------------------------------------------------
(* Bounds of the model *)

MaxMsgs == 4
MaxChunks == 2
MaxExecs == 2

-----------------------------------------------------------------------------
(* Arithmetic helpers *)

Max(a, b) == IF a >= b THEN a ELSE b

\* Math.ceil(n / d) for n >= 0, d > 0
CeilDiv(n, d) == (n + d - 1) \div d

RECURSIVE SumSeq(_)
SumSeq(s) == IF s = <<>> THEN 0 ELSE Head(s) + SumSeq(Tail(s))

-----------------------------------------------------------------------------
(* Prices, in units of 1e-10 dollar *)

\* getTokenCost: tokens * 0.0000025
TokenPrice == 25000
\* webSearch and generateAudio flat surcharge 0.01
SearchBase == 100000000
\* generateImage baseCost 0.06
ImageBase == 600000000
\* generateAudio per-word price 0.005
WordPrice == 50000000
\* file and memory operations flat surcharge 0.005
StoreBase == 50000000
\* AI_LEVELS 'fast': inPrice 0.075 / 1000000, outPrice 0.30 / 1000000
InPrice == 750
OutPrice == 3000

\* A variant of Markup that leaves the amount as it is
MarkupSkipped(x) == x

\* x * 1.1 (every amount the code marks up is a multiple of 10 units)
Markup(x) == x + x \div 10

-----------------------------------------------------------------------------
(* Tool calls: {id, name, args}.  args is absent (the SDK's FunctionCall.args *)
(* is optional) or an object, kept as the sequence of its <<key, value>>     *)
(* pairs; a value is a number written by its text, a string without white    *)
(* space, or a text given by the sequence of its characters.                 *)

StrV(s) == [t |-> "str", s |-> s, c |-> <<>>]
NumV(s) == [t |-> "num", s |-> s, c |-> <<>>]
TxtV(chars) == [t |-> "txt", s |-> "", c |-> chars]
NoArgs == [present |-> FALSE, kv |-> <<>>]
Args(kv) == [present |-> TRUE, kv |-> kv]

HasArg(args, k) == \E i \in 1..Len(args.kv) : args.kv[i][1] = k
ArgOf(args, k) == args.kv[CHOOSE i \in 1..Len(args.kv) : args.kv[i][1] = k][2]

\* JSON.stringify(value).length: a string is quoted, a number is not
JsonValLen(v) ==
    CASE v.t = "str" -> Len(v.s) + 2
      [] v.t = "txt" -> Len(v.c) + 2
      [] OTHER -> Len(v.s)

\* JSON.stringify(args).length for an object: {"k":v,"k":v}
JsonArgsLen(args) ==
    LET n == Len(args.kv)
        part(i) == Len(args.kv[i][1]) + 3 + JsonValLen(args.kv[i][2])
    IN  2 + SumSeq([i \in 1..n |-> part(i)]) + (IF n > 1 THEN n - 1 ELSE 0)

(* Tool results: undefined, a number, a string, or a structured value kept  *)
(* by its JSON text.                                                        *)
UndefR == [t |-> "undef", s |-> ""]
NumR(s) == [t |-> "num", s |-> s]
StrR(s) == [t |-> "str", s |-> s]
JsonR(s) == [t |-> "json", s |-> s]

ToolError == StrR("Error executing tool")

-----------------------------------------------------------------------------
(* executeToolLogic, lines 296-539: the dispatch inside try/catch, then the  *)
(* cost computation, which runs outside the try block.                       *)

FileTools == {"createFile", "createFolder", "deleteNode", "readFile",
              "editFile", "renameNode", "listFiles"}
MemoryTools == {"saveMemory", "updateMemory", "deleteMemory"}
NetworkTools == {"webSearch", "generateImage", "generateAudio"}

\* The stores the file and memory tools read (filesRef.current,
\* settingsRef.current.memories): one file "f1", one folder "d1", one memory "m1".
StoredFiles == {[id |-> "f1", isFolder |-> FALSE, content |-> "data"],
                [id |-> "d1", isFolder |-> TRUE, content |-> ""]}
StoredMemories == {"m1"}

\* The text of a string-or-undefined argument inside a template literal
ArgText(args, k) == IF HasArg(args, k) THEN ArgOf(args, k).s ELSE "undefined"

\* Function('"use strict";return (' + expression + ')')() on the expressions
\* the model draws; any other text throws (SyntaxError / ReferenceError)
JsEval(e) ==
    CASE e = "2+2" -> [threw |-> FALSE, result |-> NumR("4")]
      [] e = "6*7" -> [threw |-> FALSE, result |-> NumR("42")]
      [] e = "undefined" -> [threw |-> FALSE, result |-> UndefR]
      [] OTHER -> [threw |-> TRUE, result |-> UndefR]

\* The outcomes of the network the executor awaits: the call answers with a
\* payload ("ok"), answers without one ("empty"), or rejects ("throw")
NetOutcomes == {"ok", "empty", "throw"}

SearchHits == JsonR("[{\"title\":\"t\",\"link\":\"l\",\"snippet\":\"s\"}]")
SearchData == JsonR("{\"error\":\"no results\"}")
ImagePayload == JsonR("{\"imageBase64\":\"AAAA\"}")
AudioPayload == JsonR("{\"audioBase64\":\"UklGRg==\"}")
FreshNodeId == "1700000000000-abcdefghi"

\* Lines 302-492: the value the dispatch leaves in `result`, and whether it
\* threw on the way
ToolDispatch(call, net) ==
    LET a == call.args
        ok(r) == [threw |-> FALSE, result |-> r]
        boom == [threw |-> TRUE, result |-> UndefR]
        file(id) == {f \in StoredFiles : f.id = id}
    IN
    CASE call.name = "calculator" ->
            IF ~a.present THEN boom ELSE JsEval(ArgText(a, "expression"))
      [] call.name = "webSearch" ->
            IF ~a.present \/ net = "throw" THEN boom
            ELSE IF net = "ok" THEN ok(SearchHits) ELSE ok(SearchData)
      [] call.name = "generateImage" ->
            IF ~a.present \/ net = "throw" THEN boom
            ELSE IF net = "ok" THEN ok(ImagePayload)
            ELSE ok(StrR("Failed to generate image."))
      [] call.name = "generateAudio" ->
            IF ~a.present \/ net = "throw" THEN boom
            ELSE IF net = "ok" THEN ok(AudioPayload)
            ELSE ok(StrR("Failed to generate audio."))
      [] call.name = "saveMemory" ->
            IF ~a.present THEN boom
            ELSE ok(StrR("Memory saved successfully with ID: mem-" \o FreshNodeId))
      [] call.name = "updateMemory" ->
            IF ~a.present THEN boom
            ELSE IF HasArg(a, "id") /\ ArgOf(a, "id").s \in StoredMemories
                 THEN ok(StrR("Memory " \o ArgText(a, "id") \o " updated successfully."))
                 ELSE ok(StrR("Memory with ID " \o ArgText(a, "id") \o " not found."))
      [] call.name = "deleteMemory" ->
            IF ~a.present THEN boom
            ELSE IF HasArg(a, "id") /\ ArgOf(a, "id").s \in StoredMemories
                 THEN ok(StrR("Memory " \o ArgText(a, "id") \o " deleted successfully."))
                 ELSE ok(StrR("Memory with ID " \o ArgText(a, "id") \o " not found."))
      [] call.name = "createFile" ->
            IF ~a.present THEN boom
            ELSE ok(StrR("File created successfully with ID: file-" \o FreshNodeId))
      [] call.name = "createFolder" ->
            IF ~a.present THEN boom
            ELSE ok(StrR("Folder created successfully with ID: folder-" \o FreshNodeId))
      [] call.name = "deleteNode" ->
            IF ~a.present THEN boom
            ELSE IF file(ArgText(a, "id")) # {}
                 THEN ok(StrR("Node and its children deleted successfully."))
                 ELSE ok(StrR("Node with ID " \o ArgText(a, "id") \o " not found."))
      [] call.name = "readFile" ->
            IF ~a.present THEN boom
            ELSE IF \E f \in file(ArgText(a, "id")) : ~f.isFolder
                 THEN LET f == CHOOSE f \in file(ArgText(a, "id")) : TRUE
                      IN  ok(StrR(IF f.content # "" THEN f.content
                                  ELSE "File is empty or binary."))
                 ELSE ok(StrR("File with ID " \o ArgText(a, "id")
                              \o " not found or is a folder."))
      [] call.name = "editFile" ->
            IF ~a.present THEN boom
            ELSE IF \E f \in file(ArgText(a, "id")) : ~f.isFolder
                 THEN ok(StrR("File " \o ArgText(a, "id") \o " edited successfully."))
                 ELSE ok(StrR("File with ID " \o ArgText(a, "id")
                              \o " not found or is a folder."))
      [] call.name = "renameNode" ->
            IF ~a.present THEN boom
            ELSE IF file(ArgText(a, "id")) # {}
                 THEN ok(StrR("Node " \o ArgText(a, "id") \o " renamed to "
                              \o ArgText(a, "newName") \o "."))
                 ELSE ok(StrR("Node with ID " \o ArgText(a, "id") \o " not found."))
      [] call.name = "listFiles" ->
            IF ~a.present THEN boom
            ELSE IF HasArg(a, "parentId") THEN ok(StrR("Folder is empty."))
                 ELSE ok(JsonR("[{\"id\":\"f1\",\"name\":\"n\",\"isFolder\":false},"
                               \o "{\"id\":\"d1\",\"name\":\"d\",\"isFolder\":true}]"))
      [] OTHER -> ok(StrR("Tool not supported."))

\* Lines 302-495: try { dispatch } catch (e) { result = "Error executing tool" }
ToolResultOf(call, net) ==
    LET d == ToolDispatch(call, net)
    IN  IF d.threw THEN ToolError ELSE d.result

\* A variant of ArgsTokenCount that measures the argument values alone
\* instead of the JSON text of the arguments object
ArgsTokenCountOfValues(args) ==
    IF ~args.present THEN 0
    ELSE CeilDiv(SumSeq([i \in 1..Len(args.kv) |->
                            Len(args.kv[i][2].s) + Len(args.kv[i][2].c)]), 4)

\* getTokenCount, lines 497-501
ArgsTokenCount(args) ==
    IF ~args.present THEN 0 ELSE CeilDiv(JsonArgsLen(args), 4)
ResultTokenCount(r) ==
    IF r.t = "undef" THEN 0 ELSE CeilDiv(Len(r.s), 4)

\* String.prototype.trim and split(/\s+/).length on a text kept as the
\* sequence of its characters
IsSpace(c) == c = " "
RECURSIVE TrimLeft(_)
TrimLeft(s) == IF s # <<>> /\ IsSpace(Head(s)) THEN TrimLeft(Tail(s)) ELSE s
RECURSIVE TrimRight(_)
TrimRight(s) ==
    IF s # <<>> /\ IsSpace(s[Len(s)]) THEN TrimRight(SubSeq(s, 1, Len(s) - 1)) ELSE s
Trim(s) == TrimRight(TrimLeft(s))
SplitCount(s) ==
    1 + Cardinality({i \in 1..Len(s) :
                        IsSpace(s[i]) /\ (i = 1 \/ ~IsSpace(s[i - 1]))})

\* Line 525: call.args.text ? call.args.text.trim().split(/\s+/).length : 0.
\* A number has no trim method: a truthy number throws.
AudioWordCount(args) ==
    IF ~HasArg(args, "text") THEN [threw |-> FALSE, n |-> 0]
    ELSE LET v == ArgOf(args, "text")
         IN  IF v.t = "num"
             THEN [threw |-> v.s # "0", n |-> 0]
             ELSE IF v.t = "txt"
             THEN [threw |-> FALSE,
                   n |-> IF v.c = <<>> THEN 0 ELSE SplitCount(Trim(v.c))]
             ELSE [threw |-> FALSE, n |-> IF v.s = "" THEN 0 ELSE 1]

\* Lines 503-532: costToAdd.  threw: the computation reads call.args.model
\* (line 521) or call.args.text (line 525) outside the try block.
ToolCost(call, result, ks) ==
    LET inputTokens == ArgsTokenCount(call.args)
        outputTokens == ResultTokenCount(result)
        totalTokenCost == inputTokens * TokenPrice + outputTokens * TokenPrice
        ok(c) == [threw |-> FALSE, cost |-> c]
        boom == [threw |-> TRUE, cost |-> 0]
    IN
    CASE call.name = "webSearch" ->
            ok(IF ks.search THEN Markup(totalTokenCost)
               ELSE Markup(SearchBase + totalTokenCost))
      [] call.name = "calculator" -> ok(Markup(totalTokenCost))
      [] call.name = "generateImage" ->
            IF ~call.args.present THEN boom
            ELSE ok(IF ks.image THEN Markup(totalTokenCost)
                    ELSE Markup(ImageBase + totalTokenCost))
      [] call.name = "generateAudio" ->
            IF ~call.args.present THEN boom
            ELSE LET w == AudioWordCount(call.args)
                 IN  IF w.threw THEN boom
                     ELSE ok(IF ks.audio THEN Markup(totalTokenCost)
                             ELSE Markup(SearchBase + totalTokenCost + w.n * WordPrice))
      [] call.name \in FileTools -> ok(Markup(totalTokenCost + StoreBase))
      [] call.name \in MemoryTools -> ok(Markup(totalTokenCost + StoreBase))
      [] OTHER -> ok(0)

\* executeToolLogic as a whole: what it returns, or that it threw
ExecuteToolLogic(call, ks, net) ==
    LET result == ToolResultOf(call, net)
        c == ToolCost(call, result, ks)
    IN  [threw |-> c.threw,
         result |-> result,
         costToAdd |-> c.cost,
         inputTokens |-> ArgsTokenCount(call.args),
         outputTokens |-> ResultTokenCount(result)]

\* executeToolLogic suspends on the network only when its dispatch reaches
\* the fetch / generateContent call
ToolIsAsync(call) == call.name \in NetworkTools /\ call.args.present

\* A variant of Debit without the floor at zero
DebitUnfloored(b, c) == b - c

\* Lines 534-536: setBalance(prev => Math.max(0, prev - costToAdd))
Debit(b, c) == Max(0, b - c)

-----------------------------------------------------------------------------
(* Messages (src/src/types.ts) *)

Msg(id, role, text, status) ==
    [id |-> id, role |-> role, text |-> text, status |-> status,
     pendingToolCall |-> <<>>, toolResult |-> <<>>, tokens |-> <<>>,
     cost |-> <<>>, variants |-> <<>>, attachments |-> <<>>]

Tokens(p, c) == [prompt |-> p, candidates |-> c, total |-> p + c]

\* messages.map(m => m.id === id ? f(m) : m)
MapMsg(msgs, id, f(_)) ==
    [i \in 1..Len(msgs) |-> IF msgs[i].id = id THEN f(msgs[i]) ELSE msgs[i]]

HasMsg(msgs, id) == \E i \in 1..Len(msgs) : msgs[i].id = id
\* messages.find(m => m.id === id)
FindMsg(msgs, id) == msgs[CHOOSE i \in 1..Len(msgs) : msgs[i].id = id]

StoppedMarker == "\n\n*(Generation stopped by user)*"
GenericErrorText ==
    "An error occurred while generating the response. Please try again or select a different model."
ContextErrorText ==
    "Error: The input token count exceeds the maximum allowed by this model (1,048,576 tokens). Please start a new conversation or remove some attachments."
RejectionText == "User denied permission to run this tool."

\* Lines 556-586: the text of the one part a message contributes to `contents`
PartText(m) ==
    IF m.role = "model" /\ m.pendingToolCall # <<>>
    THEN IF m.text # "" THEN m.text
         ELSE "[Action: Calling tool " \o m.pendingToolCall[1].name \o "]"
    ELSE IF m.role = "function" /\ m.toolResult # <<>>
    THEN LET r == m.toolResult[1].result
             resultText == IF r = AudioPayload THEN "[Audio Generated Successfully]"
                           ELSE IF r = ImagePayload THEN "[Image Generated Successfully]"
                           ELSE IF r.t = "undef" THEN "undefined"
                           ELSE r.s
         IN  "[Tool Response from " \o m.toolResult[1].name \o "]:\n" \o resultText
    ELSE m.text

\* Lines 696-705 and 799-808: the size the prompt-token fallback divides by 4
\* Lines 579-584: an ordinary message contributes one inlineData part for
\* each attachment; lines 702 and 805: the size such a part is counted for
InlineSize(m) ==
    IF \/ m.role = "model" /\ m.pendingToolCall # <<>>
       \/ m.role = "function" /\ m.toolResult # <<>>
    THEN 0
    ELSE SumSeq([i \in 1..Len(m.attachments) |->
                    CeilDiv(Len(m.attachments[i].base64), 4)])

ContentsSize(history) ==
    SumSeq([i \in 1..Len(history) |->
               Len(PartText(history[i])) + InlineSize(history[i])])

\* Lines 695-709 and 798-812: a counter the service left at 0 is estimated
PromptTokens(p) == IF p.pTokens = 0 THEN CeilDiv(ContentsSize(p.history), 4) ELSE p.pTokens
CandidateTokens(p, text) == IF p.cTokens = 0 THEN CeilDiv(Len(text), 4) ELSE p.cTokens

\* Lines 815-816: cost, then finalCost
GenerationCost(pT, cT, ks) ==
    IF ks.text THEN 0 ELSE Markup(pT * InPrice + cT * OutPrice)

-----------------------------------------------------------------------------
(* Suspended activations.  A runAI activation is suspended on its stream    *)
(* ("stream"), or on the executeToolLogic it awaits in auto mode            *)
(* ("autoTool"); a handleApproveTool activation is suspended on the         *)
(* executeToolLogic it awaits ("approveTool"); handleSend leaves a 300 ms   *)
(* timer behind ("sentTimer").  modeSnap is the conversation mode in the    *)
(* `conversations` value the handler's closure captured.                    *)

Proc(kind, mid, history, modeSnap) ==
    [kind |-> kind, mid |-> mid, history |-> history, modeSnap |-> modeSnap,
     currentText |-> "", pTokens |-> 0, cTokens |-> 0, n |-> 0, call |-> <<>>]

\* The increments a stream may deliver: text, usage counters, a function call
Call(name, args) == [id |-> 0, name |-> name, args |-> args]
ToolCalls ==
    {Call("calculator", Args(<<<<"expression", StrV("2+2")>>>>)),
     Call("webSearch", Args(<<<<"query", StrV("q")>>>>))}

\* What a generation call may throw
StreamErrors == {"AbortError", "maximum number of tokens allowed", "other"}

\* abortControllerRef.current?.signal.aborted
SignalAborted == abortRef # <<>> /\ abortRef[1] \in abortedCtrls

toolResMsg(id, call, r) ==
    [Msg(id, "function", "Executed: " \o call.name, "done") EXCEPT
        !.toolResult = <<[id |-> call.id, name |-> call.name,
                          result |-> r.result, cost |-> <<r.costToAdd>>]>>,
        !.tokens = <<Tokens(r.inputTokens, r.outputTokens)>>]

\* The tool call is taken off a message that leaves waiting_approval or
\* processing
SetStatusDropsCall(msgs, id, st) ==
    MapMsg(msgs, id, LAMBDA m : [m EXCEPT !.status = st,
                                          !.pendingToolCall = <<>>])

SetStatus(msgs, id, st) == MapMsg(msgs, id, LAMBDA m : [m EXCEPT !.status = st])

LogDebit(mid, kind, amount) ==
    debitLog' = Append(debitLog, [mid |-> mid, kind |-> kind, amount |-> amount])

\* Lines 541-551: runAI up to the await of the stream; id names the new
\* model message and its controller
RunAI(msgs, history, modeSnap, others, id) ==
    /\ id <= limit.msgs
    /\ isLoading' = TRUE
    /\ abortRef' = <<id>>
    /\ messages' = Append(msgs, Msg(id, "model", "", "processing"))
    /\ procs' = others \cup {Proc("stream", id, history, modeSnap)}
    /\ nextId' = id + 1

\* Lines 872-875: finally
Finally == isLoading' = FALSE /\ abortRef' = <<>>

\* Lines 837-871: catch (error)
Catch(msgs, p, err) ==
    /\ messages' =
         IF err = "AbortError" \/ SignalAborted
         THEN MapMsg(msgs, p.mid,
                     LAMBDA m : [m EXCEPT !.text = m.text \o StoppedMarker,
                                          !.status = "aborted"])
         ELSE MapMsg(msgs, p.mid,
                     LAMBDA m : [m EXCEPT
                        !.text = IF err = "maximum number of tokens allowed"
                                 THEN ContextErrorText ELSE GenericErrorText,
                        !.status = "error"])
    /\ Finally

\* The sub-turn that requested the tool is charged for its generation as well
AutoToolDoneDebitsGeneration(msgs, p, call, r, others) ==
    IF r.threw
    THEN /\ Catch(msgs, p, "other")
         /\ procs' = others
         /\ UNCHANGED <<balance, debitLog, nextId>>
    ELSE LET res == toolResMsg(nextId, call, r)
             modelMsg == [Msg(p.mid, "model", p.currentText, "done") EXCEPT
                             !.pendingToolCall = <<call>>,
                             !.tokens = <<Tokens(p.pTokens, p.cTokens)>>]
             newHistory == p.history \o <<modelMsg, res>>
             finalCost == GenerationCost(p.pTokens, p.cTokens, keys)
         IN  /\ balance' = Debit(IF r.costToAdd > 0 THEN Debit(balance, r.costToAdd)
                                 ELSE balance, finalCost)
             /\ debitLog' =
                  (IF r.costToAdd > 0
                   THEN Append(debitLog, [mid |-> p.mid, kind |-> "tool",
                                          amount |-> r.costToAdd])
                   ELSE debitLog)
                  \o <<[mid |-> p.mid, kind |-> "generation", amount |-> finalCost]>>
             /\ RunAI(Append(SetStatus(msgs, p.mid, "done"), res),
                      newHistory, p.modeSnap, others, nextId + 1)

\* Lines 736-771: auto mode, once executeToolLogic(call) has settled with r
AutoToolDone(msgs, p, call, r, others) ==
    IF r.threw
    THEN /\ Catch(msgs, p, "other")
         /\ procs' = others
         /\ UNCHANGED <<balance, debitLog, nextId>>
    ELSE LET res == toolResMsg(nextId, call, r)
             modelMsg == [Msg(p.mid, "model", p.currentText, "done") EXCEPT
                             !.pendingToolCall = <<call>>,
                             !.tokens = <<Tokens(p.pTokens, p.cTokens)>>]
             newHistory == p.history \o <<modelMsg, res>>
         IN  /\ balance' = IF r.costToAdd > 0 THEN Debit(balance, r.costToAdd)
                           ELSE balance
             /\ IF r.costToAdd > 0 THEN LogDebit(p.mid, "tool", r.costToAdd)
                ELSE UNCHANGED debitLog
             /\ RunAI(Append(SetStatus(msgs, p.mid, "done"), res),
                      newHistory, p.modeSnap, others, nextId + 1)

-----------------------------------------------------------------------------
(* The stream loop of runAI, lines 632-670, one increment per step *)

\* The stream is read on after the increment that carries a function call
ToolCallFoundReadsOn(p, text, pT, cT, call) ==
    LET q == [p EXCEPT !.currentText = text, !.pTokens = pT, !.cTokens = cT,
                       !.call = <<call>>]
        others == procs \ {p}
        pending(st) ==
            MapMsg(messages, p.mid,
                   LAMBDA m : [m EXCEPT !.text = text,
                                        !.pendingToolCall = <<call>>,
                                        !.status = st,
                                        !.tokens = <<Tokens(pT, cT)>>])
    IN
    IF p.modeSnap = "auto"
    THEN /\ Len(execLog) < limit.execs
         /\ execLog' = Append(execLog, call.id)
         /\ IF ToolIsAsync(call)
            THEN /\ messages' = pending("processing")
                 /\ procs' = others \cup {[q EXCEPT !.kind = "autoTool"]}
                 /\ UNCHANGED <<balance, debitLog, nextId, isLoading, abortRef>>
            ELSE AutoToolDone(pending("processing"), q, call,
                              ExecuteToolLogic(call, keys, "ok"), others)
    ELSE /\ messages' = pending("waiting_approval")
         /\ procs' = others \cup {[q EXCEPT !.call = <<>>, !.n = p.n + 1]}
         /\ UNCHANGED <<isLoading, abortRef>>
         /\ UNCHANGED <<balance, debitLog, nextId, execLog>>

\* Lines 693-795: a function call was found in the increment
ToolCallFound(p, text, pT, cT, call) ==
    LET q == [p EXCEPT !.currentText = text, !.pTokens = pT, !.cTokens = cT,
                       !.call = <<call>>]
        others == procs \ {p}
        pending(st) ==
            MapMsg(messages, p.mid,
                   LAMBDA m : [m EXCEPT !.text = text,
                                        !.pendingToolCall = <<call>>,
                                        !.status = st,
                                        !.tokens = <<Tokens(pT, cT)>>])
    IN
    IF p.modeSnap = "auto"
    THEN /\ Len(execLog) < limit.execs
         /\ execLog' = Append(execLog, call.id)
         /\ IF ToolIsAsync(call)
            THEN /\ messages' = pending("processing")
                 /\ procs' = others \cup {[q EXCEPT !.kind = "autoTool"]}
                 /\ UNCHANGED <<balance, debitLog, nextId, isLoading, abortRef>>
            ELSE AutoToolDone(pending("processing"), q, call,
                              ExecuteToolLogic(call, keys, "ok"), others)
    ELSE /\ messages' = pending("waiting_approval")
         /\ procs' = others
         /\ Finally
         /\ UNCHANGED <<balance, debitLog, nextId, execLog>>

\* One increment of the stream arrives.  The id the service gives a function
\* call is kept as the id of the message that requests it, which is unique.
StreamChunk(p, chunk) ==
    /\ p \in procs /\ p.kind = "stream"
    /\ p.n < MaxChunks
    /\ UNCHANGED <<mode, abortedCtrls, keys, balance0, limit, prefs>>
    /\ IF SignalAborted
       THEN \* lines 633-636 and 675-691
            /\ messages' = MapMsg(messages, p.mid,
                   LAMBDA m : [m EXCEPT !.text = p.currentText \o StoppedMarker,
                                        !.status = "aborted"])
            /\ procs' = procs \ {p}
            /\ Finally
            /\ UNCHANGED <<balance, debitLog, nextId, execLog>>
       ELSE LET text == p.currentText \o chunk.text
                pTok == IF chunk.usage # <<>> /\ chunk.usage[1].p # 0
                        THEN chunk.usage[1].p ELSE p.pTokens
                cTok == IF chunk.usage # <<>> /\ chunk.usage[1].c # 0
                        THEN chunk.usage[1].c ELSE p.cTokens
                q == [p EXCEPT !.currentText = text, !.pTokens = pTok,
                               !.cTokens = cTok, !.n = p.n + 1]
            IN  IF chunk.fc # <<>>
                THEN ToolCallFound(p, text,
                                   PromptTokens(q), CandidateTokens(q, text),
                                   [chunk.fc[1] EXCEPT !.id = p.mid])
                ELSE \* lines 657-669
                     /\ messages' = MapMsg(messages, p.mid,
                            LAMBDA m : [m EXCEPT !.text = text,
                                                 !.status = "processing"])
                     /\ procs' = (procs \ {p}) \cup {q}
                     /\ UNCHANGED <<balance, debitLog, nextId, execLog,
                                    isLoading, abortRef>>

\* The stream ends and no function call was found: lines 797-835
StreamEnd(p) ==
    /\ p \in procs /\ p.kind = "stream"
    /\ LET pT == PromptTokens(p)
           cT == CandidateTokens(p, p.currentText)
           finalCost == GenerationCost(pT, cT, keys)
       IN  /\ balance' = Debit(balance, finalCost)
           /\ LogDebit(p.mid, "generation", finalCost)
           /\ messages' = MapMsg(messages, p.mid,
                  LAMBDA m : [m EXCEPT !.text = p.currentText,
                                       !.tokens = <<Tokens(pT, cT)>>,
                                       !.cost = <<finalCost>>,
                                       !.status = "done"])
    /\ procs' = procs \ {p}
    /\ Finally
    /\ UNCHANGED <<mode, abortedCtrls, keys, balance0, limit, prefs, nextId, execLog>>

\* generateContentStream, or the iteration of its stream, throws
StreamThrow(p, err) ==
    /\ p \in procs /\ p.kind = "stream"
    /\ Catch(messages, p, err)
    /\ procs' = procs \ {p}
    /\ UNCHANGED <<mode, abortedCtrls, keys, balance0, limit, prefs, nextId, execLog,
                   balance, debitLog>>

\* The executeToolLogic awaited in auto mode (line 737) settles
AutoToolFinish(p, net) ==
    /\ p \in procs /\ p.kind = "autoTool"
    /\ AutoToolDone(messages, p, p.call[1],
                    ExecuteToolLogic(p.call[1], keys, net), procs \ {p})
    /\ UNCHANGED <<mode, abortedCtrls, keys, balance0, limit, prefs, execLog>>

-----------------------------------------------------------------------------
(* The A/B prober, runABTest: two generateContent requests awaited through  *)
(* Promise.all.  Its activation ("abTest") records in resA and resB the     *)
(* text of each response that has arrived.                                  *)

ABProc(mid, history) ==
    [kind |-> "abTest", mid |-> mid, history |-> history, modeSnap |-> "manual",
     currentText |-> "", pTokens |-> 0, cTokens |-> 0, n |-> 0, call |-> <<>>,
     resA |-> <<>>, resB |-> <<>>]

\* Lines 1039-1040: the tone each variant is labelled with
ToneA == "Concise & Analytical"
ToneB == "Warm & Detailed"

\* Lines 1039-1040: res.text || 'No response'
VariantText(text) == IF text = "" THEN "No response" ELSE text

\* Lines 1038-1041
Variants(textA, textB) ==
    <<[id |-> "A", text |-> VariantText(textA), tone |-> ToneA],
      [id |-> "B", text |-> VariantText(textB), tone |-> ToneB]>>

VariantsErrorText == "Error generating variants."

\* Lines 948-961: runABTest up to the await of Promise.all; no abort
\* controller is installed
RunABTest(msgs, history, others, id) ==
    /\ id <= limit.msgs
    /\ isLoading' = TRUE
    /\ messages' = Append(msgs, Msg(id, "model", "", "processing"))
    /\ procs' = others \cup {ABProc(id, history)}
    /\ nextId' = id + 1
    /\ UNCHANGED abortRef

\* The probe is charged like a generation once both responses are in
ABGenerationDoneDebits(p, v, text) ==
    /\ p \in procs /\ p.kind = "abTest"
    /\ IF v = "A" THEN p.resA = <<>> ELSE p.resB = <<>>
    /\ LET q == IF v = "A" THEN [p EXCEPT !.resA = <<text>>]
                ELSE [p EXCEPT !.resB = <<text>>]
           pT == CeilDiv(ContentsSize(p.history), 4)
           cT == CeilDiv(Len(q.resA[1]) + Len(q.resB[1]), 4)
           finalCost == GenerationCost(2 * pT, cT, keys)
       IN  IF q.resA # <<>> /\ q.resB # <<>>
           THEN /\ messages' = MapMsg(messages, p.mid,
                       LAMBDA m : [m EXCEPT
                          !.status = "waiting_variant_selection",
                          !.variants = Variants(q.resA[1], q.resB[1])])
                /\ procs' = procs \ {p}
                /\ isLoading' = FALSE
                /\ balance' = Debit(balance, finalCost)
                /\ LogDebit(p.mid, "generation", finalCost)
           ELSE /\ procs' = (procs \ {p}) \cup {q}
                /\ UNCHANGED <<messages, isLoading, balance, debitLog>>
    /\ UNCHANGED <<mode, abortRef, abortedCtrls, nextId, keys, execLog,
                   balance0, limit, prefs>>

\* A variant is shown as soon as its response arrives
ABGenerationDoneShowsEach(p, v, text) ==
    /\ p \in procs /\ p.kind = "abTest"
    /\ IF v = "A" THEN p.resA = <<>> ELSE p.resB = <<>>
    /\ LET q == IF v = "A" THEN [p EXCEPT !.resA = <<text>>]
                ELSE [p EXCEPT !.resB = <<text>>]
           shown == IF q.resA # <<>> /\ q.resB # <<>>
                    THEN Variants(q.resA[1], q.resB[1])
                    ELSE IF v = "A" THEN <<Variants(text, "")[1]>>
                    ELSE <<Variants("", text)[2]>>
       IN  /\ messages' = MapMsg(messages, p.mid,
                  LAMBDA m : [m EXCEPT !.status = "waiting_variant_selection",
                                       !.variants = shown])
           /\ IF q.resA # <<>> /\ q.resB # <<>>
              THEN procs' = procs \ {p} /\ isLoading' = FALSE
              ELSE procs' = (procs \ {p}) \cup {q} /\ UNCHANGED isLoading
    /\ UNCHANGED <<mode, balance, abortRef, abortedCtrls, nextId, keys, execLog,
                   debitLog, balance0, limit, prefs>>

\* Lines 1028-1043 and 1050-1052: one of the two requests resolves with a
\* response of the given text; Promise.all resolves with the second one
ABGenerationDone(p, v, text) ==
    /\ p \in procs /\ p.kind = "abTest"
    /\ IF v = "A" THEN p.resA = <<>> ELSE p.resB = <<>>
    /\ LET q == IF v = "A" THEN [p EXCEPT !.resA = <<text>>]
                ELSE [p EXCEPT !.resB = <<text>>]
       IN  IF q.resA # <<>> /\ q.resB # <<>>
           THEN /\ messages' = MapMsg(messages, p.mid,
                       LAMBDA m : [m EXCEPT
                          !.status = "waiting_variant_selection",
                          !.variants = Variants(q.resA[1], q.resB[1])])
                /\ procs' = procs \ {p}
                /\ isLoading' = FALSE
           ELSE /\ procs' = (procs \ {p}) \cup {q}
                /\ UNCHANGED <<messages, isLoading>>
    /\ UNCHANGED <<mode, balance, abortRef, abortedCtrls, nextId, keys, execLog,
                   debitLog, balance0, limit, prefs>>

\* Lines 1044-1052: one of the two requests rejects, so Promise.all does
ABTestThrow(p, err) ==
    /\ p \in procs /\ p.kind = "abTest"
    /\ messages' = MapMsg(messages, p.mid,
           LAMBDA m : [m EXCEPT !.text = VariantsErrorText, !.status = "error"])
    /\ procs' = procs \ {p}
    /\ isLoading' = FALSE
    /\ UNCHANGED <<mode, balance, abortRef, abortedCtrls, nextId, keys, execLog,
                   debitLog, balance0, limit, prefs>>

\* Line 1056: the preference a selection records
Preference(tone) == "User prefers " \o tone \o " tone."

\* The selection leaves the variants on the message
SelectVariantKeepsVariants(mid, variant) ==
    /\ prefs' = Append(prefs, Preference(variant.tone))
    /\ messages' = MapMsg(messages, mid,
           LAMBDA m : [m EXCEPT !.text = variant.text, !.status = "done"])
    /\ UNCHANGED <<mode, balance, isLoading, abortRef, abortedCtrls, procs,
                   nextId, keys, execLog, debitLog, balance0, limit>>

\* handleSelectVariant, lines 1055-1069
SelectVariant(mid, variant) ==
    /\ prefs' = Append(prefs, Preference(variant.tone))
    /\ messages' = MapMsg(messages, mid,
           LAMBDA m : [m EXCEPT !.text = variant.text, !.status = "done",
                                !.variants = <<>>])
    /\ UNCHANGED <<mode, balance, isLoading, abortRef, abortedCtrls, procs,
                   nextId, keys, execLog, debitLog, balance0, limit>>

-----------------------------------------------------------------------------
(* The handlers *)

UserCount(msgs) == Cardinality({i \in 1..Len(msgs) : msgs[i].role = "user"})

\* Lines 938-939
IsABTest(msgs) == UserCount(msgs) > 0 /\ UserCount(msgs) % 10 = 0

UserTexts == {"hi"}

\* handleSend, lines 878-946, on the text typed and the files attached
SendWith(txt, atts) ==
    /\ ~isLoading
    /\ LET userMessage == [Msg(nextId, "user", txt, "sending") EXCEPT
                             !.attachments = atts]
           updatedMessages == Append(messages, userMessage)
       IN  IF IsABTest(updatedMessages)
           THEN RunABTest(updatedMessages, updatedMessages,
                          procs \cup {Proc("sentTimer", nextId, <<>>, mode)},
                          nextId + 1)
           ELSE RunAI(updatedMessages, updatedMessages, mode,
                      procs \cup {Proc("sentTimer", nextId, <<>>, mode)},
                      nextId + 1)
    /\ UNCHANGED <<mode, balance, abortedCtrls, keys, execLog, debitLog,
                   balance0, limit, prefs>>

\* handleSend on a text alone
Send(txt) == SendWith(txt, <<>>)

\* Lines 931-936: the timer handleSend sets marks the user message sent
SentTimer(p) ==
    /\ p \in procs /\ p.kind = "sentTimer"
    /\ messages' = SetStatus(messages, p.mid, "sent")
    /\ procs' = procs \ {p}
    /\ UNCHANGED <<mode, balance, isLoading, abortRef, abortedCtrls, nextId, keys,
                   execLog, debitLog, balance0, limit, prefs>>

\* handleStopGeneration, lines 282-288
Stop ==
    /\ abortedCtrls' = IF abortRef # <<>> THEN abortedCtrls \cup {abortRef[1]}
                       ELSE abortedCtrls
    /\ abortRef' = <<>>
    /\ isLoading' = FALSE
    /\ UNCHANGED <<messages, mode, balance, procs, nextId, keys, execLog,
                   debitLog, balance0, limit, prefs>>

\* toggleAutoMode, lines 1107-1110
ToggleAutoMode ==
    /\ mode' = IF mode = "auto" THEN "manual" ELSE "auto"
    /\ UNCHANGED <<messages, balance, isLoading, abortRef, abortedCtrls, procs,
                   nextId, keys, execLog, debitLog, balance0, limit, prefs>>

\* Lines 1087-1104: handleApproveTool once executeToolLogic(call) has
\* settled with r; snapshot is the conv.messages its closure captured
ApproveDone(msgs, snapshot, mid, modeSnap, call, r, others) ==
    IF r.threw
    THEN \* the rejection is unhandled: the handler ends here
         /\ messages' = msgs
         /\ procs' = others
         /\ UNCHANGED <<balance, debitLog, nextId, isLoading, abortRef>>
    ELSE LET res == toolResMsg(nextId, call, r)
             updatedHistory == Append(SetStatus(snapshot, mid, "done"), res)
         IN  /\ balance' = IF r.costToAdd > 0 THEN Debit(balance, r.costToAdd)
                           ELSE balance
             /\ IF r.costToAdd > 0 THEN LogDebit(mid, "tool", r.costToAdd)
                ELSE UNCHANGED debitLog
             /\ RunAI(updatedHistory, updatedHistory, modeSnap, others, nextId + 1)

\* handleApproveTool, lines 1071-1105
Approve(mid) ==
    /\ HasMsg(messages, mid)
    /\ FindMsg(messages, mid).pendingToolCall # <<>>
    /\ LET call == FindMsg(messages, mid).pendingToolCall[1]
           processing == SetStatus(messages, mid, "processing")
       IN  /\ Len(execLog) < limit.execs
           /\ execLog' = Append(execLog, call.id)
           /\ IF ToolIsAsync(call)
              THEN /\ messages' = processing
                   /\ procs' = procs \cup
                        {[Proc("approveTool", mid, messages, mode) EXCEPT
                             !.call = <<call>>]}
                   /\ UNCHANGED <<balance, debitLog, nextId, isLoading, abortRef>>
              ELSE ApproveDone(processing, messages, mid, mode, call,
                               ExecuteToolLogic(call, keys, "ok"), procs)
    /\ UNCHANGED <<mode, abortedCtrls, keys, balance0, limit, prefs>>

\* The executeToolLogic awaited by handleApproveTool (line 1085) settles
ApproveFinish(p, net) ==
    /\ p \in procs /\ p.kind = "approveTool"
    /\ ApproveDone(messages, p.history, p.mid, p.modeSnap, p.call[1],
                   ExecuteToolLogic(p.call[1], keys, net), procs \ {p})
    /\ UNCHANGED <<mode, abortedCtrls, keys, balance0, limit, prefs, execLog>>

\* The rejected message is given a status of its own
RejectMarksRejected(mid) ==
    /\ HasMsg(messages, mid)
    /\ FindMsg(messages, mid).pendingToolCall # <<>>
    /\ LET call == FindMsg(messages, mid).pendingToolCall[1]
           rejectionTokens == CeilDiv(Len(RejectionText), 4)
           res == [Msg(nextId, "function", "User rejected tool execution.", "done")
                     EXCEPT !.toolResult = <<[id |-> call.id, name |-> call.name,
                                              result |-> StrR(RejectionText),
                                              cost |-> <<>>]>>,
                            !.tokens = <<Tokens(0, rejectionTokens)>>]
           updatedHistory == Append(SetStatus(messages, mid, "rejected"), res)
       IN  RunAI(updatedHistory, updatedHistory, mode, procs, nextId + 1)
    /\ UNCHANGED <<mode, balance, abortedCtrls, keys, execLog, debitLog,
                   balance0, limit, prefs>>

\* handleRejectTool, lines 1112-1140
Reject(mid) ==
    /\ HasMsg(messages, mid)
    /\ FindMsg(messages, mid).pendingToolCall # <<>>
    /\ LET call == FindMsg(messages, mid).pendingToolCall[1]
           rejectionTokens == CeilDiv(Len(RejectionText), 4)
           res == [Msg(nextId, "function", "User rejected tool execution.", "done")
                     EXCEPT !.toolResult = <<[id |-> call.id, name |-> call.name,
                                              result |-> StrR(RejectionText),
                                              cost |-> <<>>]>>,
                            !.tokens = <<Tokens(0, rejectionTokens)>>]
           updatedHistory == Append(SetStatus(messages, mid, "done"), res)
       IN  RunAI(updatedHistory, updatedHistory, mode, procs, nextId + 1)
    /\ UNCHANGED <<mode, balance, abortedCtrls, keys, execLog, debitLog,
                   balance0, limit, prefs>>

\* handleRegenerate, lines 1142-1158
Regenerate(mid) ==
    /\ ~isLoading
    /\ HasMsg(messages, mid)
    /\ LET msgIndex == CHOOSE i \in 1..Len(messages) : messages[i].id = mid
           history == SubSeq(messages, 1, msgIndex - 1)
       IN  RunAI(history, history, mode, procs, nextId)
    /\ UNCHANGED <<mode, balance, abortedCtrls, keys, execLog, debitLog,
                   balance0, limit, prefs>>

-----------------------------------------------------------------------------
(* What the rendered page lets the user do *)

\* Line 1827: the stop button replaces the send button while isLoading
CanStop == isLoading
\* Line 1665: Approve and Reject are rendered on a message waiting for approval
CanResolve(mid) ==
    /\ HasMsg(messages, mid)
    /\ FindMsg(messages, mid).role # "user"
    /\ FindMsg(messages, mid).pendingToolCall # <<>>
    /\ FindMsg(messages, mid).status = "waiting_approval"
\* Line 1683: Regenerate is rendered on a message in error or aborted
CanRegenerate(mid) ==
    /\ HasMsg(messages, mid)
    /\ FindMsg(messages, mid).role # "user"
    /\ FindMsg(messages, mid).status \in {"error", "aborted"}

Ids == 1..limit.msgs

-----------------------------------------------------------------------------
(* The orchestrator: a session on a new conversation, driven through the    *)
(* rendered page.  The 300 ms timer of handleSend stays pending: it only    *)
(* rewrites a user message's status, which no step of the orchestrator      *)
(* reads.                                                                   *)

NoKeys == [text |-> FALSE, search |-> FALSE, image |-> FALSE, audio |-> FALSE]
\* The balances a session starts from (localStorage inex_balance): one that
\* a single tool debit exhausts, one that covers every debit of a run
StartBalance == 100000
AmpleBalance == 2000000000

InitWith(modes, keySets, balances, lim) ==
    /\ messages = <<>>
    /\ mode \in modes
    /\ balance \in balances
    /\ balance0 = balance
    /\ isLoading = FALSE
    /\ abortRef = <<>>
    /\ abortedCtrls = {}
    /\ procs = {}
    /\ nextId = 1
    /\ keys \in keySets
    /\ execLog = <<>>
    /\ debitLog = <<>>
    /\ limit = lim
    /\ prefs = <<>>

Init == InitWith({"manual"}, {NoKeys}, {StartBalance}, [msgs |-> MaxMsgs, execs |-> MaxExecs])

\* The increments, failures and network outcomes the orchestrator is run on
TextChunk == [text |-> "ab", usage |-> <<>>, fc |-> <<>>]
UsageChunk == [text |-> "cd", usage |-> <<[p |-> 9, c |-> 5]>>, fc |-> <<>>]
CallChunk(c) == [text |-> "", usage |-> <<>>, fc |-> <<c>>]
SpecChunks == {TextChunk} \cup {CallChunk(c) : c \in ToolCalls}
SpecErrors == {"other"}
SpecNets == {"ok"}

Next ==
    \/ \E txt \in UserTexts : Send(txt)
    \/ CanStop /\ Stop
    \/ ToggleAutoMode
    \/ \E p \in procs, chunk \in SpecChunks : StreamChunk(p, chunk)
    \/ \E p \in procs : StreamEnd(p)
    \/ \E p \in procs, err \in SpecErrors : StreamThrow(p, err)
    \/ \E p \in procs, net \in SpecNets : AutoToolFinish(p, net)
    \/ \E mid \in Ids : CanResolve(mid) /\ Approve(mid)
    \/ \E p \in procs, net \in SpecNets : ApproveFinish(p, net)
    \/ \E mid \in Ids : CanResolve(mid) /\ Reject(mid)
    \/ \E mid \in Ids : CanRegenerate(mid) /\ Regenerate(mid)

Spec == Init /\ [][Next]_vars

-----------------------------------------------------------------------------
(* One tool call from request to the follow-up turn, for every tool, every  *)
(* shape of arguments, every set of caller keys and both modes.             *)

ToolMsgs == 4
ToolExecs == 1

AudioText(chars) == Args(<<<<"text", TxtV(chars)>>>>)
AllToolCalls ==
    {Call("calculator", a) :
        a \in {NoArgs, Args(<<>>),
               Args(<<<<"expression", StrV("2+2")>>>>),
               Args(<<<<"expression", StrV("6*7")>>>>),
               Args(<<<<"expression", StrV("2+")>>>>)}}
    \cup {Call("webSearch", a) : a \in {NoArgs, Args(<<<<"query", StrV("q")>>>>)}}
    \cup {Call("generateImage", a) :
        a \in {NoArgs, Args(<<<<"prompt", StrV("p")>>,
                              <<"model", StrV("gemini-2.5-flash-image")>>>>)}}
    \cup {Call("generateAudio", a) :
        a \in {NoArgs, Args(<<>>),
               AudioText(<<>>), AudioText(<<"a">>), AudioText(<<"a", " ", "b">>),
               AudioText(<<" ", "a", " ", " ", "b", " ">>), AudioText(<<" ", " ">>),
               Args(<<<<"text", NumV("5")>>>>)}}
    \cup {Call(n, a) : n \in {"readFile", "deleteNode", "deleteMemory"},
                       a \in {NoArgs, Args(<<>>),
                              Args(<<<<"id", StrV("f1")>>>>),
                              Args(<<<<"id", StrV("d1")>>>>),
                              Args(<<<<"id", StrV("m1")>>>>)}}
    \cup {Call(n, a) : n \in {"editFile", "updateMemory"},
                       a \in {NoArgs,
                              Args(<<<<"id", StrV("f1")>>, <<"content", StrV("c")>>>>),
                              Args(<<<<"id", StrV("m1")>>, <<"content", StrV("c")>>>>)}}
    \cup {Call("renameNode", a) :
        a \in {NoArgs, Args(<<<<"id", StrV("d1")>>, <<"newName", StrV("n")>>>>)}}
    \cup {Call("listFiles", a) :
        a \in {NoArgs, Args(<<>>), Args(<<<<"parentId", StrV("d1")>>>>)}}
    \cup {Call(n, a) : n \in {"createFile", "createFolder"},
                       a \in {NoArgs, Args(<<<<"name", StrV("n")>>>>)}}
    \cup {Call("saveMemory", a) : a \in {NoArgs, Args(<<<<"content", StrV("c")>>>>)}}
    \cup {Call("editImage", Args(<<>>))}

\* settings.apiKeys: no caller key, a key for one capability, a key for each
KeySets ==
    {NoKeys, [text |-> TRUE, search |-> TRUE, image |-> TRUE, audio |-> TRUE]}
    \cup {[NoKeys EXCEPT ![k] = TRUE] : k \in {"text", "search", "image", "audio"}}

InitTool == InitWith({"manual", "auto"}, KeySets, {StartBalance, AmpleBalance},
                     [msgs |-> ToolMsgs, execs |-> ToolExecs])

ToolChunks == {TextChunk, UsageChunk} \cup {CallChunk(c) : c \in AllToolCalls}

\* The first turn of the conversation is the one that requests the tool; the
\* service reports token counts in the turn that follows it
FirstTurn(p) == p.mid = 2

NextTool ==
    \/ \E txt \in UserTexts : messages = <<>> /\ Send(txt)
    \/ \E p \in procs, chunk \in ToolChunks :
          /\ chunk.fc # <<>> => FirstTurn(p)
          /\ chunk = UsageChunk => ~FirstTurn(p)
          /\ StreamChunk(p, chunk)
    \/ \E p \in procs : StreamEnd(p)
    \/ \E p \in procs, err \in SpecErrors : StreamThrow(p, err)
    \/ \E p \in procs, net \in NetOutcomes : AutoToolFinish(p, net)
    \/ \E mid \in Ids : CanResolve(mid) /\ Approve(mid)
    \/ \E p \in procs, net \in NetOutcomes : ApproveFinish(p, net)
    \/ \E mid \in Ids : CanResolve(mid) /\ Reject(mid)

SpecTool == InitTool /\ [][NextTool]_vars

-----------------------------------------------------------------------------
(* Two tool calls pending at once: in manual mode the page accepts a new    *)
(* message while an earlier one waits for approval, and approve does not    *)
(* set isLoading while its tool runs.                                       *)

ResolveMsgs == 6
ResolveExecs == 3

InitResolve == InitWith({"manual"}, {NoKeys}, {StartBalance},
                        [msgs |-> ResolveMsgs, execs |-> ResolveExecs])

WebCall == Call("webSearch", Args(<<<<"query", StrV("q")>>>>))

NextResolve ==
    \/ \E txt \in UserTexts : Send(txt)
    \/ \E p \in procs : StreamChunk(p, CallChunk(WebCall))
    \/ \E p \in procs : StreamEnd(p)
    \/ \E mid \in Ids : CanResolve(mid) /\ Approve(mid)
    \/ \E p \in procs, net \in SpecNets : ApproveFinish(p, net)
    \/ \E mid \in Ids : CanResolve(mid) /\ Reject(mid)

SpecResolve == InitResolve /\ [][NextResolve]_vars

-----------------------------------------------------------------------------
(* Text-only turns that overlap: stop, send and regenerate through the      *)
(* rendered page while an earlier stream is still being consumed.           *)

OverlapMsgs == 5

InitOverlap == InitWith({"manual"}, {NoKeys}, {StartBalance},
                        [msgs |-> OverlapMsgs, execs |-> MaxExecs])

NextOverlap ==
    \/ \E txt \in UserTexts : Send(txt)
    \/ \E p \in procs : SentTimer(p)
    \/ CanStop /\ Stop
    \/ \E p \in procs : StreamChunk(p, TextChunk)
    \/ \E p \in procs : StreamEnd(p)
    \/ \E p \in procs, err \in StreamErrors : StreamThrow(p, err)
    \/ \E mid \in Ids : CanRegenerate(mid) /\ Regenerate(mid)

SpecOverlap == InitOverlap /\ [][NextOverlap]_vars

-----------------------------------------------------------------------------
(* The A/B prober at work: the session opens on a stored conversation of    *)
(* eight or nine finished text exchanges (localStorage inex_conversations), *)
(* so that the messages sent next are the ninth to the eleventh.            *)

\* The messages a session may add to the stored conversation
ProbeMsgs == 4

LoadedTurns == {8, 9}

\* A stored exchange: the user message after its timer, the model message
\* as StreamEnd leaves it after one text increment
LoadedModel(id, history) ==
    LET pT == CeilDiv(ContentsSize(history), 4)
        cT == CeilDiv(Len(TextChunk.text), 4)
    IN  [Msg(id, "model", TextChunk.text, "done") EXCEPT
            !.tokens = <<Tokens(pT, cT)>>,
            !.cost = <<GenerationCost(pT, cT, NoKeys)>>]

RECURSIVE Loaded(_)
Loaded(k) ==
    IF k = 0 THEN <<>>
    ELSE LET history == Append(Loaded(k - 1), Msg(2 * k - 1, "user", "hi", "sent"))
         IN  Append(history, LoadedModel(2 * k, history))

InitProbe ==
    /\ messages \in {Loaded(k) : k \in LoadedTurns}
    /\ mode = "manual"
    /\ balance = StartBalance
    /\ balance0 = balance
    /\ isLoading = FALSE
    /\ abortRef = <<>>
    /\ abortedCtrls = {}
    /\ procs = {}
    /\ nextId = Len(messages) + 1
    /\ keys = NoKeys
    /\ execLog = <<>>
    /\ debitLog = <<>>
    /\ limit = [msgs |-> Len(messages) + ProbeMsgs, execs |-> MaxExecs]
    /\ prefs = <<>>

\* The texts a probe response may carry: none (a response of function calls
\* only) or some
ResponseTexts == {"", "xy"}
ProbeErrors == {"maximum number of tokens allowed", "other"}

\* Line 1649: the variants are rendered, each with its button, on a message
\* waiting for the selection
CanSelect(mid, variant) ==
    /\ HasMsg(messages, mid)
    /\ FindMsg(messages, mid).status = "waiting_variant_selection"
    /\ \E i \in 1..Len(FindMsg(messages, mid).variants) :
          FindMsg(messages, mid).variants[i] = variant

VariantsOf(mid) ==
    IF HasMsg(messages, mid)
    THEN {FindMsg(messages, mid).variants[i] :
            i \in 1..Len(FindMsg(messages, mid).variants)}
    ELSE {}

NextProbe ==
    \/ \E txt \in UserTexts : Send(txt)
    \/ CanStop /\ Stop
    \/ \E p \in procs : StreamChunk(p, TextChunk)
    \/ \E p \in procs : StreamEnd(p)
    \/ \E p \in procs, err \in ProbeErrors : StreamThrow(p, err)
    \/ \E p \in procs, v \in {"A", "B"}, text \in ResponseTexts :
          ABGenerationDone(p, v, text)
    \/ \E p \in procs, err \in ProbeErrors : ABTestThrow(p, err)
    \/ \E mid \in Ids : \E variant \in VariantsOf(mid) :
          CanSelect(mid, variant) /\ SelectVariant(mid, variant)
    \/ \E mid \in Ids : CanRegenerate(mid) /\ Regenerate(mid)

SpecProbe == InitProbe /\ [][NextProbe]_vars

-----------------------------------------------------------------------------
(* One message, with or without attached files, and the stream that answers *)
(* it: increments of text, usage counters reported in full, in part or not  *)
(* at all, and increments that carry one or two function calls.             *)

StreamMsgs == 4
StreamExecs == 1

\* Lines 893-901: an attached file, its content in base64
Attachment(base64) == [name |-> "f", mimeType |-> "text/plain", base64 |-> base64]
AttachmentLists ==
    {<<>>, <<Attachment("QUJDREVGRw==")>>,
     <<Attachment("QUJDREVGRw=="), Attachment("QUJDRA==")>>}

CalcCallOf(expr) == Call("calculator", Args(<<<<"expression", StrV(expr)>>>>))

PromptOnlyChunk == [text |-> "ef", usage |-> <<[p |-> 7, c |-> 0]>>, fc |-> <<>>]
TextCallChunk(c) == [text |-> "gh", usage |-> <<>>, fc |-> <<c>>]
TwoCallsChunk(c, d) == [text |-> "", usage |-> <<>>, fc |-> <<c, d>>]
StreamChunks ==
    {TextChunk, UsageChunk, PromptOnlyChunk, TextCallChunk(CalcCallOf("2+2")),
     TwoCallsChunk(CalcCallOf("6*7"), CalcCallOf("2+2"))}

InitStream == InitWith({"manual", "auto"},
                       {NoKeys, [NoKeys EXCEPT !.text = TRUE]}, {AmpleBalance},
                       [msgs |-> StreamMsgs, execs |-> StreamExecs])

NextStream ==
    \/ \E txt \in UserTexts, atts \in AttachmentLists :
          messages = <<>> /\ SendWith(txt, atts)
    \/ \E p \in procs, chunk \in StreamChunks : StreamChunk(p, chunk)
    \/ \E p \in procs : StreamEnd(p)
    \/ \E mid \in Ids : CanResolve(mid) /\ Approve(mid)
    \/ \E mid \in Ids : CanResolve(mid) /\ Reject(mid)

SpecStream == InitStream /\ [][NextStream]_vars

-----------------------------------------------------------------------------
(* The selection handler invoked on any probe answer: the cards of a probe   *)
(* bind handleSelectVariant(msg.id, v) for both variants (line 1653), and    *)
(* the handler itself reads neither the status nor the variants of the       *)
(* message it is given.                                                      *)

\* The preferences a session may store
MaxPrefs == 2

\* Every probe of this session returns the same text for both variants, so
\* the two bound handlers of a probe answer carry these variants
SelectTexts == {"xy"}
BoundVariants ==
    {Variants(a, b)[k] : a \in SelectTexts, b \in SelectTexts, k \in 1..2}

\* The message at position i answers a user turn that went to the prober
ProbeAnswer(msgs, i) ==
    /\ i > 1
    /\ msgs[i].role = "model" /\ msgs[i - 1].role = "user"
    /\ IsABTest(SubSeq(msgs, 1, i - 1))

\* The probe answers whose cards have been rendered: those that wait for the
\* selection or have left it by one
HadCards(mid) ==
    \E i \in 1..Len(messages) :
        /\ messages[i].id = mid /\ ProbeAnswer(messages, i)
        /\ messages[i].status \in {"waiting_variant_selection", "done"}

NextSelect ==
    \/ \E txt \in UserTexts : Send(txt)
    \/ \E p \in procs : SentTimer(p)
    \/ \E p \in procs : StreamChunk(p, TextChunk)
    \/ \E p \in procs : StreamEnd(p)
    \/ \E p \in procs, v \in {"A", "B"}, text \in SelectTexts :
          ABGenerationDone(p, v, text)
    \/ \E p \in procs, err \in ProbeErrors : ABTestThrow(p, err)
    \/ \E mid \in Ids, variant \in BoundVariants :
          HadCards(mid) /\ Len(prefs) < MaxPrefs /\ SelectVariant(mid, variant)

SpecSelect == InitProbe /\ [][NextSelect]_vars

-----------------------------------------------------------------------------
(* Progress.  The service and the tools keep their promises: a stream that   *)
(* can deliver or end does so, an awaited executeToolLogic settles, a timer  *)
(* fires.  What the user does (send, approve, reject) is under no            *)
(* obligation.  A stream is finite because it delivers at most MaxChunks     *)
(* increments, and the model asks for at most LiveExecs tools.               *)

LiveMsgs == 4
LiveExecs == 1

\* A tool that returns at once, one that is awaited, one whose executor throws
LiveCalls == {CalcCallOf("2+2"), Call("webSearch", Args(<<<<"query", StrV("q")>>>>)),
              Call("generateImage", NoArgs)}
LiveChunks == {TextChunk} \cup {CallChunk(c) : c \in LiveCalls}

InitLive == InitWith({"manual", "auto"}, {NoKeys}, {AmpleBalance},
                     [msgs |-> LiveMsgs, execs |-> LiveExecs])

\* The steps the environment owes
LiveSystem ==
    \/ \E p \in procs : SentTimer(p)
    \/ \E p \in procs, chunk \in LiveChunks :
          (chunk.fc # <<>> => FirstTurn(p)) /\ StreamChunk(p, chunk)
    \/ \E p \in procs : StreamEnd(p)
    \/ \E p \in procs, err \in SpecErrors : StreamThrow(p, err)
    \/ \E p \in procs, net \in NetOutcomes : AutoToolFinish(p, net)
    \/ \E p \in procs, net \in NetOutcomes : ApproveFinish(p, net)

\* The steps the user may take
LiveUser ==
    \/ \E txt \in UserTexts : messages = <<>> /\ Send(txt)
    \/ \E mid \in Ids : CanResolve(mid) /\ Approve(mid)
    \/ \E mid \in Ids : CanResolve(mid) /\ Reject(mid)

NextLive == LiveSystem \/ LiveUser

SpecLive == InitLive /\ [][NextLive]_vars /\ WF_vars(LiveSystem)

-----------------------------------------------------------------------------
(* Properties *)

\* What the history variables and the message list record
DebitAmounts == [i \in 1..Len(debitLog) |-> debitLog[i].amount]
ToolDebits(id) ==
    {i \in 1..Len(debitLog) : debitLog[i].mid = id /\ debitLog[i].kind = "tool"}
Executions(id) == {i \in 1..Len(execLog) : execLog[i] = id}
ResultMsgs(id) ==
    {i \in 1..Len(messages) :
        /\ messages[i].role = "function"
        /\ messages[i].toolResult # <<>>
        /\ messages[i].toolResult[1].id = id}
\* No executeToolLogic is pending for the call of message id
Settled(id) ==
    ~\E p \in procs : p.kind \in {"autoTool", "approveTool"} /\ p.mid = id
\* The turns that are not resolved: a stream being consumed, a tool
\* executing, a message waiting for approval or for a variant selection
Unresolved ==
    {p.mid : p \in {q \in procs : q.kind \in {"stream", "autoTool", "approveTool"}}}
    \cup {messages[i].id : i \in {j \in 1..Len(messages) :
            messages[j].status \in {"waiting_approval", "waiting_variant_selection"}}}

\* C1: once stop() has aborted the controller of a turn, the only change the
\* turn's message undergoes is the move to 'aborted' with the stopped marker
\* appended to the text it had, and nothing is debited for that turn.
C1_StopEndsTurn ==
    [][\A c \in abortedCtrls :
          /\ (HasMsg(messages, c) /\ HasMsg(messages', c)) =>
                LET m == FindMsg(messages, c)
                IN  \/ FindMsg(messages', c) = m
                    \/ FindMsg(messages', c) =
                          [m EXCEPT !.text = m.text \o StoppedMarker,
                                    !.status = "aborted"]
          /\ \A i \in 1..Len(debitLog') : debitLog'[i].mid # c]_vars

\* C2: for one pending tool call the tool is executed at most once, its cost
\* is debited at most once and at most one function-result message is
\* appended, however often approve or reject is invoked.
C2_ResolvedOnce ==
    \A id \in Ids :
        /\ Cardinality(Executions(id)) <= 1
        /\ Cardinality(ToolDebits(id)) <= 1
        /\ Cardinality(ResultMsgs(id)) <= 1

\* C3: at most one turn of the conversation is unresolved at any time.
C3_OneTurnInFlight == Cardinality(Unresolved) <= 1

\* C4: in a step taken while the conversation's mode is 'manual', a message
\* that receives a tool call becomes waiting_approval without the executor
\* being entered, and the executor is entered only for a message that was
\* waiting for approval.
C4_ManualGate ==
    [][mode = "manual" =>
          /\ \A i \in 1..Len(messages') :
                LET m == messages'[i]
                IN  (/\ HasMsg(messages, m.id)
                     /\ FindMsg(messages, m.id).pendingToolCall = <<>>
                     /\ m.pendingToolCall # <<>>)
                    => (m.status = "waiting_approval" /\ execLog' = execLog)
          /\ Len(execLog') > Len(execLog) =>
                LET id == execLog'[Len(execLog')]
                IN  /\ HasMsg(messages, id)
                    /\ FindMsg(messages, id).status = "waiting_approval"]_vars

\* C5: before and after every step the balance is not negative and equals
\* max(0, starting balance minus the sum of the debits applied so far), and
\* no step increases it.
C5_BalanceLedger ==
    [][/\ balance >= 0
       /\ balance = Max(0, balance0 - SumSeq(DebitAmounts))
       /\ balance' >= 0
       /\ balance' = Max(0, balance0' - SumSeq(DebitAmounts'))
       /\ balance' <= balance]_vars
\* C5 witness: debits were applied that exceed the starting balance
C5_FloorReached ==
    /\ Len(debitLog) >= 2
    /\ SumSeq(DebitAmounts) > balance0
    /\ balance = 0

\* C6: the step that puts a model message in 'error' leaves the balance
\* alone, and the balance changes only in a step in which a model message
\* moves to 'done' or a tool execution returns its result.
C6_DebitOnlyOnDone ==
    [][/\ (\E i \in 1..Len(messages') :
              /\ messages'[i].status = "error"
              /\ HasMsg(messages, messages'[i].id)
              /\ FindMsg(messages, messages'[i].id).status # "error")
          => balance' = balance
       /\ balance' # balance =>
             \/ \E i \in 1..Len(messages') :
                   /\ messages'[i].role = "model"
                   /\ messages'[i].status = "done"
                   /\ HasMsg(messages, messages'[i].id)
                   /\ FindMsg(messages, messages'[i].id).status # "done"
             \/ \E i \in 1..Len(messages') :
                   /\ messages'[i].role = "function"
                   /\ ~HasMsg(messages, messages'[i].id)
                   /\ messages'[i].toolResult # <<>>
                   /\ messages'[i].toolResult[1].cost # <<>>]_vars

\* The calculator call of the scenario, and the step that approves it
CalcCall(mid) ==
    [id |-> mid, name |-> "calculator",
     args |-> Args(<<<<"expression", StrV("2+2")>>>>)]
ApprovesCalc(mid) ==
    /\ CanResolve(mid)
    /\ FindMsg(messages, mid).pendingToolCall = <<CalcCall(mid)>>
    /\ execLog' = Append(execLog, mid)
\* What approve leaves behind when the call costs `cost`
CalcApproved(mid, cost) ==
    /\ Len(messages') = Len(messages) + 2
    /\ LET res == messages'[Len(messages) + 1]
           next == messages'[Len(messages) + 2]
       IN  /\ res.role = "function" /\ res.status = "done"
           /\ res.toolResult =
                 <<[id |-> mid, name |-> "calculator", result |-> NumR("4"),
                    cost |-> <<cost>>]>>
           /\ next.role = "model" /\ next.status = "processing"
           /\ \E p \in procs' : p.kind = "stream" /\ p.mid = next.id
    /\ FindMsg(messages', mid).status = "done"
    /\ balance' = Max(0, balance - cost)

\* C7 (as the code has it): approving the pending calculator call "2+2"
\* appends a function result 4 whose cost is 6 tokens (5 for the JSON text
\* of the arguments, 1 for the result) at 0.0000025 times 1.1, debits it
\* with the floor at zero, sets the calling message done and starts a second
\* model turn.
C7_CalculatorApproved ==
    [][\A mid \in Ids :
          ApprovesCalc(mid) => CalcApproved(mid, 6 * 27500)]_vars
\* C7 as stated: the cost is ceil(len("2+2")/4 + len("4")/4) = 1 token at
\* 0.0000025 times 1.1.
C7_AsStated ==
    [][\A mid \in Ids :
          ApprovesCalc(mid) =>
              CalcApproved(mid, CeilDiv(Len("2+2") + Len("4"), 4) * 27500)]_vars
\* C7 witness: in manual mode the result 4 was recorded at that cost and the
\* second turn ended done
C7_SecondTurnDone ==
    \E i \in 1..Len(messages) :
        /\ i + 1 <= Len(messages)
        /\ messages[i].role = "function"
        /\ messages[i].toolResult # <<>>
        /\ messages[i].toolResult[1].result = NumR("4")
        /\ messages[i].toolResult[1].cost = <<165000>>
        /\ messages[i + 1].role = "model"
        /\ messages[i + 1].status = "done"
        /\ mode = "manual"
        /\ balance = AmpleBalance - 165000 - messages[i + 1].cost[1]

\* The flat surcharge of a tool, which a caller key for the tool's own
\* capability removes
Surcharge(call, ks) ==
    CASE call.name = "webSearch" -> IF ks.search THEN 0 ELSE SearchBase
      [] call.name = "generateImage" -> IF ks.image THEN 0 ELSE ImageBase
      [] call.name = "generateAudio" ->
            IF ks.audio THEN 0
            ELSE SearchBase + WordPrice *
                   (IF HasArg(call.args, "text") /\ ArgOf(call.args, "text").t = "txt"
                    THEN LET t == ArgOf(call.args, "text").c
                             words == {i \in 1..Len(t) :
                                         t[i] # " " /\ (i = 1 \/ t[i - 1] = " ")}
                         IN  IF t = <<>> THEN 0 ELSE Max(1, Cardinality(words))
                    ELSE 0)
      [] call.name \in FileTools \cup MemoryTools -> StoreBase
      [] OTHER -> 0
\* The tools the cost computation has a formula for
PricedTools == {"calculator"} \cup NetworkTools \cup FileTools \cup MemoryTools
\* c is base times 1.1
IsMarkedUp(c, base) == 10 * (c - base) = base
\* The call a function-result message answers
CallOf(id) == FindMsg(messages, id).pendingToolCall[1]

\* C8: every tool execution returns and debits the cost of its tool's
\* formula: 1.1 times the token cost plus the tool's surcharge, zero for any
\* other tool.
C8_ToolCostFormulas ==
    \A id \in Ids :
        (Executions(id) # {} /\ Settled(id) /\ HasMsg(messages, id)) =>
            \E i \in ResultMsgs(id) :
                LET r == messages[i].toolResult[1]
                    call == CallOf(id)
                    T == TokenPrice * (ArgsTokenCount(call.args)
                                       + ResultTokenCount(r.result))
                IN  /\ r.cost # <<>>
                    /\ IF call.name \in PricedTools
                       THEN IsMarkedUp(r.cost[1], T + Surcharge(call, keys))
                       ELSE r.cost[1] = 0
                    /\ r.cost[1] > 0 =>
                          \E k \in ToolDebits(id) : debitLog[k].amount = r.cost[1]

\* The cost fields the conversation records
ToolCostsOk(withKey(_, _)) ==
    \A i \in 1..Len(messages) :
        LET m == messages[i]
        IN  (m.role = "function" /\ m.toolResult # <<>>
             /\ m.toolResult[1].cost # <<>> /\ HasMsg(messages, m.toolResult[1].id))
            => LET c == m.toolResult[1].cost[1]
                   call == CallOf(m.toolResult[1].id)
                   T == TokenPrice * m.tokens[1].total
               IN  /\ c >= 0
                   /\ IF call.name \notin PricedTools THEN c = 0
                      ELSE IF Surcharge(call, keys) = 0 /\ call.name \in NetworkTools
                      THEN withKey(c, T)
                      ELSE IsMarkedUp(c, T + Surcharge(call, keys))
GenerationCostsOk ==
    \A i \in 1..Len(messages) :
        LET m == messages[i]
        IN  (m.role = "model" /\ m.cost # <<>>)
            => /\ m.cost[1] >= 0
               /\ IF keys.text THEN m.cost[1] = 0
                  ELSE IsMarkedUp(m.cost[1], m.tokens[1].prompt * InPrice
                                             + m.tokens[1].candidates * OutPrice)

C10_ToolFailureContained ==
    \A id \in Ids :
        (Executions(id) # {} /\ Settled(id) /\ HasMsg(messages, id)) =>
            /\ FindMsg(messages, id).status = "done"
            /\ \E i \in ResultMsgs(id) :
                  /\ messages[i].status = "done"
                  /\ i + 1 <= Len(messages)
                  /\ messages[i + 1].role = "model"

-----------------------------------------------------------------------------
(* Failures of the generation service *)

\* The failures that are not a cancellation
ServiceErrors == StreamErrors \ {"AbortError"}

\* The text the claim gives a failure
ErrorTextFor(err) ==
    IF err = "maximum number of tokens allowed" THEN ContextErrorText
    ELSE GenericErrorText

\* C11: when a generation request fails and the turn was not cancelled, the
\* model message of the turn ends in 'error' with the context-limit text if
\* the failure is the input-size one, and with the generic text otherwise.
C11_ErrorTexts ==
    [][\A p \in procs, err \in ServiceErrors :
          /\ StreamThrow(p, err) \/ ABTestThrow(p, err)
          /\ ~SignalAborted
          /\ HasMsg(messages, p.mid)
          => /\ FindMsg(messages', p.mid).status = "error"
             /\ FindMsg(messages', p.mid).text = ErrorTextFor(err)]_vars

-----------------------------------------------------------------------------
(* The A/B prober *)

\* The user turn an activation answers: the number of user messages in the
\* history it was started on, when that history ends with a user message
AnswersUserTurn(p) ==
    /\ p.kind \in {"stream", "abTest"}
    /\ p.history # <<>>
    /\ p.history[Len(p.history)].role = "user"

\* C12: the answer to a user turn is produced by the A/B prober if and only
\* if the number of user messages, that turn included, is a positive multiple
\* of 10; every other user turn is answered by a single generation.
C12_ProberEveryTenth ==
    \A p \in procs :
        AnswersUserTurn(p) => (p.kind = "abTest" <=> IsABTest(p.history))

\* The variants a message exposes are none, or the two of a finished probe
VariantsWellFormed(m, ps) ==
    /\ Len(m.variants) \in {0, 2}
    /\ m.status = "waiting_variant_selection" =>
          /\ Len(m.variants) = 2
          /\ m.variants[1].id = "A" /\ m.variants[1].tone = ToneA
          /\ m.variants[2].id = "B" /\ m.variants[2].tone = ToneB
          /\ \A p \in ps : p.kind = "abTest" => p.mid # m.id

AllVariantsWellFormed(msgs, ps) ==
    \A i \in 1..Len(msgs) : VariantsWellFormed(msgs[i], ps)

\* The step in which the probe of p ends with both responses, the first of
\* them having arrived earlier
ProbeCompletes(p) ==
    /\ p \in procs /\ p.kind = "abTest" /\ p \notin procs'
    /\ HasMsg(messages, p.mid)
    /\ FindMsg(messages', p.mid).status = "waiting_variant_selection"

\* C13: a probe message waits for the selection only once both generations
\* have completed, and then holds exactly the variants A and B with the texts
\* of the two responses ('No response' standing for a response without text);
\* if either generation throws the message ends in 'error' without variants;
\* no message ever exposes exactly one variant.
C13_BothVariantsOrNone ==
    [][/\ AllVariantsWellFormed(messages, procs)
       /\ AllVariantsWellFormed(messages', procs')
       /\ \A i \in 1..Len(messages') :
             /\ messages'[i].status = "waiting_variant_selection"
             /\ i <= Len(messages) => messages[i].status # "waiting_variant_selection"
             => \E p \in procs :
                   /\ p.mid = messages'[i].id /\ ProbeCompletes(p)
                   /\ p.resA # <<>> \/ p.resB # <<>>
                   /\ p.resA # <<>> =>
                         messages'[i].variants[1].text = VariantText(p.resA[1])
                   /\ p.resB # <<>> =>
                         messages'[i].variants[2].text = VariantText(p.resB[1])
                   /\ \A k \in 1..2 : messages'[i].variants[k].text \in
                         {VariantText(t) : t \in ResponseTexts}
       /\ \A p \in procs, err \in ProbeErrors :
             ABTestThrow(p, err) /\ HasMsg(messages, p.mid)
             => /\ FindMsg(messages', p.mid).status = "error"
                /\ FindMsg(messages', p.mid).variants = <<>>]_vars

\* A probe has finished with one response of text and one without
C13_ProbeWaiting ==
    \E i \in 1..Len(messages) :
        /\ messages[i].status = "waiting_variant_selection"
        /\ {messages[i].variants[1].text, messages[i].variants[2].text}
              = {"xy", "No response"}

\* The step in which variant k of the waiting message at index i is selected
Selects(i, k) ==
    /\ messages[i].status = "waiting_variant_selection"
    /\ k <= Len(messages[i].variants)
    /\ SelectVariant(messages[i].id, messages[i].variants[k])

\* C14: selecting variant v of a message that waits for the selection sets
\* the message's text to v's text, clears its variants, sets it 'done' and
\* appends one preference naming v's tone; no other message, no other field
\* of the message and nothing else of the state changes, and no turn starts.
C14_SelectVariant ==
    [][\A i \in 1..Len(messages), k \in 1..2 :
          Selects(i, k) =>
             LET v == messages[i].variants[k]
             IN  /\ Len(messages') = Len(messages)
                 /\ messages'[i] = [messages[i] EXCEPT !.text = v.text,
                                                       !.variants = <<>>,
                                                       !.status = "done"]
                 /\ \A j \in 1..Len(messages) : j # i => messages'[j] = messages[j]
                 /\ Len(prefs') = Len(prefs) + 1
                 /\ SubSeq(prefs', 1, Len(prefs)) = prefs
                 /\ prefs'[Len(prefs')] = "User prefers " \o v.tone \o " tone."
                 /\ v.tone \in {"Concise & Analytical", "Warm & Detailed"}
                 /\ procs' = procs /\ nextId' = nextId
                 /\ isLoading' = isLoading /\ abortRef' = abortRef
                 /\ balance' = balance /\ keys' = keys /\ mode' = mode]_vars

\* Variant B of a probe was selected: its message is done with B's text
C14_VariantBSelected ==
    /\ prefs = <<"User prefers Warm & Detailed tone.">>
    /\ \E i \in 1..Len(messages) :
          /\ messages[i].role = "model" /\ messages[i].status = "done"
          /\ messages[i].text = "xy" /\ messages[i].variants = <<>>

-----------------------------------------------------------------------------
(* Regenerate, reject, auto mode *)

IdsOf(msgs) == [i \in 1..Len(msgs) |-> msgs[i].id]

\* The turns regenerate starts: every other turn runs on a history that ends
\* with the message created just before the turn's own
StartedByRegenerate(p) ==
    /\ p.kind = "stream"
    /\ p.history = <<>> \/ p.history[Len(p.history)].id < p.mid - 1

\* C15: regenerate on the message at index i (counted from 0) leaves the i
\* messages before it, followed by a new model message with a new id, and
\* starts a turn on those i messages; when that turn completes normally the
\* conversation is those i messages followed by the new one.
C15_RegenerateRoundTrip ==
    [][/\ \A i \in 1..Len(messages) :
             Regenerate(messages[i].id) =>
                /\ Len(messages') = i
                /\ SubSeq(messages', 1, i - 1) = SubSeq(messages, 1, i - 1)
                /\ messages'[i].id \notin {messages[j].id : j \in 1..Len(messages)}
                /\ \E p \in procs' \ procs :
                      /\ p.kind = "stream" /\ p.mid = messages'[i].id
                      /\ p.history = SubSeq(messages, 1, i - 1)
       /\ \A p \in procs :
             StartedByRegenerate(p) /\ StreamEnd(p) =>
                IdsOf(messages') = Append(IdsOf(p.history), p.mid)]_vars

\* The function-result message a rejection appends
IsDenial(m, call) ==
    /\ m.role = "function"
    /\ m.toolResult # <<>>
    /\ m.toolResult[1].id = call.id /\ m.toolResult[1].name = call.name
    /\ m.toolResult[1].result = StrR("User denied permission to run this tool.")
    /\ m.toolResult[1].cost = <<>>

\* C16: rejecting the tool call of a message waiting for approval sets that
\* message 'done', appends exactly one function-result message with the
\* denial string, executes no tool, debits nothing and starts a new model
\* turn on the extended history; no message ever has a status 'rejected'.
C16_RejectResolves ==
    [][/\ \A i \in 1..Len(messages) : messages[i].status # "rejected"
       /\ \A i \in 1..Len(messages') : messages'[i].status # "rejected"
       /\ \A i \in 1..Len(messages) :
             /\ messages[i].status = "waiting_approval"
             /\ Reject(messages[i].id)
             => LET n == Len(messages)
                    call == messages[i].pendingToolCall[1]
                IN  /\ Len(messages') = n + 2
                    /\ messages'[i] = [messages[i] EXCEPT !.status = "done"]
                    /\ \A j \in 1..n : j # i => messages'[j] = messages[j]
                    /\ IsDenial(messages'[n + 1], call)
                    /\ messages'[n + 2].role = "model"
                    /\ messages'[n + 2].status = "processing"
                    /\ execLog' = execLog
                    /\ balance' = balance /\ debitLog' = debitLog
                    /\ \E p \in procs' \ procs :
                          /\ p.kind = "stream" /\ p.mid = messages'[n + 2].id
                          /\ p.history = SubSeq(messages', 1, n + 1)
                    /\ isLoading']_vars

\* A tool call was rejected and the turn that followed has answered
C16_RejectedAndAnswered ==
    /\ execLog = <<>> /\ debitLog # <<>>
    /\ \E i \in 2..Len(messages) :
          /\ messages[i].role = "function"
          /\ messages[i - 1].pendingToolCall # <<>>
          /\ messages[i - 1].status = "done"
          /\ IsDenial(messages[i], messages[i - 1].pendingToolCall[1])
          /\ i < Len(messages) /\ messages[i + 1].status = "done"

\* C17: in auto mode a detected tool call is executed without waiting for
\* approval; once the execution has settled the calling message is 'done',
\* exactly one function-result message with the tool's result and cost
\* stands directly after it, the cost was debited, and the follow-up model
\* turn was started after the result.
C17_AutoModeLoop ==
    mode = "auto" =>
       \A i \in 1..Len(messages) :
          messages[i].pendingToolCall # <<>> =>
             LET id == messages[i].id
             IN  /\ messages[i].status # "waiting_approval"
                 /\ Executions(id) # {}
                 /\ Settled(id) =>
                       /\ messages[i].status = "done"
                       /\ ResultMsgs(id) = {i + 1}
                       /\ messages[i + 1].toolResult[1].cost # <<>>
                       /\ messages[i + 1].toolResult[1].cost[1] > 0
                             => Cardinality(ToolDebits(id)) = 1
                       /\ i + 2 <= Len(messages)
                       /\ messages[i + 2].role = "model"

-----------------------------------------------------------------------------
(* Completion of a turn, message statuses *)

\* C18: in the step in which a stream completes normally without a tool
\* call, the model message of the turn becomes 'done' with
\* cost = (p * inPrice + c * outPrice) * 1.1, or 0 when the caller supplies
\* the text credential, and exactly one debit, of that cost, is applied to
\* the balance.
C18_CompletionCost ==
    [][\A p \in procs :
          StreamEnd(p) =>
             LET pT == PromptTokens(p)
                 cT == CandidateTokens(p, p.currentText)
                 base == pT * InPrice + cT * OutPrice
                 cost == IF keys.text THEN 0 ELSE base + base \div 10
             IN  /\ HasMsg(messages', p.mid)
                 /\ FindMsg(messages', p.mid).status = "done"
                 /\ FindMsg(messages', p.mid).cost = <<cost>>
                 /\ balance' = Max(0, balance - cost)
                 /\ Len(debitLog') = Len(debitLog) + 1
                 /\ debitLog'[Len(debitLog')].amount = cost]_vars

\* The status changes the claim allows a model message.  waiting_approval to
\* 'done' is the rejection, and the approval of a tool that returns at once.
AllowedStatusChange ==
    {<<"processing", s>> : s \in {"done", "error", "aborted", "waiting_approval",
                                  "waiting_variant_selection"}}
    \cup {<<"waiting_approval", "processing">>, <<"waiting_approval", "done">>,
          <<"waiting_variant_selection", "done">>}

\* C19: the status of a model message changes only from processing to done,
\* error, aborted, waiting_approval or waiting_variant_selection, from
\* waiting_approval to processing and then done, and from
\* waiting_variant_selection to done; a message that is done, in error or
\* aborted keeps its status.
C19_StatusTransitions ==
    [][\A i \in 1..Len(messages), j \in 1..Len(messages') :
          /\ messages[i].role = "model"
          /\ messages'[j].id = messages[i].id
          /\ messages'[j].status # messages[i].status
          => <<messages[i].status, messages'[j].status>> \in AllowedStatusChange]_vars

-----------------------------------------------------------------------------
(* Tool results and the message sequence *)

\* toolResult only on function messages, and one function message for each
\* settled invocation
ResultsAccounted ==
    /\ \A i \in 1..Len(messages) :
          messages[i].toolResult # <<>> => messages[i].role = "function"
    /\ \A id \in Ids :
          (Executions(id) # {} /\ Settled(id) /\ HasMsg(messages, id))
          => Cardinality(ResultMsgs(id)) = 1

\* C21: toolResult is present only on function messages; once a tool
\* invocation has settled (executed, or rejected) exactly one function
\* message answers it; and the toolResult of a function message that stays
\* in the conversation is never modified.
C21_OneResultPerInvocation ==
    [][/\ ResultsAccounted
       /\ ResultsAccounted'
       /\ \A i \in 1..Len(messages), j \in 1..Len(messages') :
             (messages[i].role = "function" /\ messages'[j].id = messages[i].id)
             => messages'[j].toolResult = messages[i].toolResult]_vars

\* The position of the message of the given id, 0 if it is absent
PosOf(msgs, id) ==
    IF HasMsg(msgs, id) THEN CHOOSE i \in 1..Len(msgs) : msgs[i].id = id ELSE 0

\* C22: in every step other than a regenerate, every message of the
\* conversation stays in it and the messages already there keep their
\* relative order.
C22_AppendOnly ==
    [][(~\E mid \in Ids : Regenerate(mid)) =>
          /\ \A i \in 1..Len(messages) : HasMsg(messages', messages[i].id)
          /\ \A i, j \in 1..Len(messages) :
                i < j => PosOf(messages', messages[i].id)
                            < PosOf(messages', messages[j].id)]_vars

-----------------------------------------------------------------------------
(* The stream loop *)

\* No stream is being consumed into a message that has recorded a tool call,
\* and a message records at most one
OneCallEndsStream(msgs, ps) ==
    /\ \A i \in 1..Len(msgs) : Len(msgs[i].pendingToolCall) <= 1
    /\ \A p \in ps :
          (p.kind = "stream" /\ HasMsg(msgs, p.mid))
          => FindMsg(msgs, p.mid).pendingToolCall = <<>>

\* C23: the increment that carries a tool invocation request is the last one
\* consumed from its stream, and only its first request is handled: the
\* message records that one call, with the text accumulated up to and
\* including that increment, and no stream is consumed into a message that
\* has recorded a call, so that no later increment can reach its text.
C23_FirstCallEndsStream ==
    [][/\ OneCallEndsStream(messages, procs)
       /\ OneCallEndsStream(messages', procs')
       /\ \A p \in procs, chunk \in StreamChunks :
             (chunk.fc # <<>> /\ ~SignalAborted /\ StreamChunk(p, chunk)) =>
                /\ \A q \in procs' : q.mid = p.mid => q.kind # "stream"
                /\ FindMsg(messages', p.mid).pendingToolCall
                      = <<[chunk.fc[1] EXCEPT !.id = p.mid]>>
                /\ FindMsg(messages', p.mid).text = p.currentText \o chunk.text]_vars

\* An increment with two requests arrived after an increment of text, and
\* the first of the two was approved
C23_FirstOfTwoHandled ==
    \E i \in 1..Len(messages) :
        /\ messages[i].pendingToolCall
              = <<[CalcCallOf("6*7") EXCEPT !.id = messages[i].id]>>
        /\ messages[i].text = "ab"
        /\ messages[i].status = "done"
        /\ mode = "manual"
        /\ execLog = <<messages[i].id>>

\* C24: whenever a turn is consuming its stream, the cancellation-token
\* reference is set and holds the controller that runAI created for that
\* turn; neither stop nor another turn's finally leaves a running stream
\* without its token.
C24_TokenOfRunningTurn ==
    \A p \in procs : p.kind = "stream" => abortRef = <<p.mid>>

-----------------------------------------------------------------------------
(* Selection, token estimates, pairing of calls and results *)

\* C25: selectVariant has an effect only on a message whose status is
\* 'waiting_variant_selection'; invoked on a message in any other status, a
\* second invocation on the same message included, it leaves the messages and
\* the stored preference list unchanged.
C25_SelectOnlyWhenWaiting ==
    [][\A mid \in Ids, variant \in BoundVariants :
          (/\ SelectVariant(mid, variant)
           /\ ~(/\ HasMsg(messages, mid)
                /\ FindMsg(messages, mid).status = "waiting_variant_selection"))
          => (messages' = messages /\ prefs' = prefs)]_vars

\* The length of the inline attachment payloads a message puts into the request
PayloadSize(m) ==
    IF \/ m.role = "model" /\ m.pendingToolCall # <<>>
       \/ m.role = "function" /\ m.toolResult # <<>>
    THEN 0
    ELSE SumSeq([i \in 1..Len(m.attachments) |-> Len(m.attachments[i].base64)])

\* B: all text parts plus all inline attachment payloads of the request
RequestSize(history) ==
    SumSeq([i \in 1..Len(history) |->
               Len(PartText(history[i])) + PayloadSize(history[i])])

\* A reported counter as it is, a counter not reported estimated
EstimatedTokens(history, text, reportedP, reportedC) ==
    Tokens(IF reportedP # 0 THEN reportedP ELSE CeilDiv(RequestSize(history), 4),
           IF reportedC # 0 THEN reportedC ELSE CeilDiv(Len(text), 4))

\* The counters reported up to and including an increment
ReportedP(p, chunk) ==
    IF chunk.usage # <<>> /\ chunk.usage[1].p # 0 THEN chunk.usage[1].p ELSE p.pTokens
ReportedC(p, chunk) ==
    IF chunk.usage # <<>> /\ chunk.usage[1].c # 0 THEN chunk.usage[1].c ELSE p.cTokens

\* C26: the token counts a sub-turn records, at the end of its stream and at
\* its tool call alike, are the counters the service reported, and for a
\* counter it did not report, promptTokens = ceil(B/4) with B the length of
\* all text parts plus the length of all inline attachment payloads of the
\* request, and completionTokens = ceil(length of the accumulated text / 4).
C26_FallbackEstimate ==
    [][\A p \in procs :
          /\ StreamEnd(p) =>
                FindMsg(messages', p.mid).tokens =
                   <<EstimatedTokens(p.history, p.currentText, p.pTokens, p.cTokens)>>
          /\ \A chunk \in StreamChunks :
                (chunk.fc # <<>> /\ ~SignalAborted /\ StreamChunk(p, chunk)) =>
                   FindMsg(messages', p.mid).tokens =
                      <<EstimatedTokens(p.history, p.currentText \o chunk.text,
                                        ReportedP(p, chunk), ReportedC(p, chunk))>>]_vars

\* C27: every function message is immediately preceded by the model message
\* whose pendingToolCall it answers, with the same call id and tool name; no
\* other turn's message stands between a call and its result.
C27_ResultFollowsCall ==
    \A i \in 1..Len(messages) :
        messages[i].role = "function" =>
           /\ i > 1
           /\ messages[i].toolResult # <<>>
           /\ messages[i - 1].role = "model"
           /\ messages[i - 1].pendingToolCall # <<>>
           /\ messages[i - 1].pendingToolCall[1].id = messages[i].toolResult[1].id
           /\ messages[i - 1].pendingToolCall[1].name = messages[i].toolResult[1].name

-----------------------------------------------------------------------------
(* What a sub-turn costs *)

\* C28: a sub-turn whose stream ends in a tool call is not charged for its
\* generation: in manual and in auto mode the model message that requested
\* the tool carries token counts and no cost, every debit made for it is the
\* tool's own cost as the function message reports it, and there is none
\* while the tool has not been executed (a rejected call never is).
C28_ToolCallTurnCost ==
    \A i \in 1..Len(messages) :
        (messages[i].role = "model" /\ messages[i].pendingToolCall # <<>>) =>
           /\ messages[i].tokens # <<>>
           /\ messages[i].cost = <<>>
           /\ \A j \in 1..Len(debitLog) :
                 debitLog[j].mid = messages[i].id =>
                    /\ debitLog[j].kind = "tool"
                    /\ \E k \in ResultMsgs(messages[i].id) :
                          messages[k].toolResult[1].cost = <<debitLog[j].amount>>
           /\ Executions(messages[i].id) = {} => ToolDebits(messages[i].id) = {}

\* In auto mode a web search was executed for message 2 and debited, and the
\* message is done with its token counts
C28_SearchDebitedOnly ==
    /\ Len(messages) >= 3
    /\ messages[2].pendingToolCall # <<>>
    /\ messages[2].pendingToolCall[1].name = "webSearch"
    /\ messages[2].status = "done" /\ messages[2].tokens # <<>>
    /\ messages[3].role = "function"
    /\ mode = "auto" /\ ~keys.text
    /\ Len(debitLog) = 1 /\ debitLog[1].kind = "tool" /\ debitLog[1].amount > 0

\* The messages a probe is working on or has put up for selection carry
\* neither token counts nor a cost
ProbeMessagesBare(msgs, ps) ==
    \A i \in 1..Len(msgs) :
        (\/ msgs[i].status = "waiting_variant_selection"
         \/ \E p \in ps : p.kind = "abTest" /\ p.mid = msgs[i].id)
        => (msgs[i].tokens = <<>> /\ msgs[i].cost = <<>>)

\* C29: an A/B probe leaves the balance unchanged: starting it, the arrival
\* of either response, its failure and the later selection of a variant make
\* no debit, and the probe's message carries neither tokens nor cost, also
\* once a variant has been selected.
C29_ProbeIsFree ==
    [][/\ ProbeMessagesBare(messages, procs)
       /\ ProbeMessagesBare(messages', procs')
       /\ \A p \in procs' \ procs :
             p.kind = "abTest" => (balance' = balance /\ debitLog' = debitLog)
       /\ \A p \in procs \ procs' :
             p.kind = "abTest" => (balance' = balance /\ debitLog' = debitLog)
       /\ \A i \in 1..Len(messages), k \in 1..2 :
             Selects(i, k) =>
                /\ balance' = balance /\ debitLog' = debitLog
                /\ messages'[i].tokens = <<>> /\ messages'[i].cost = <<>>]_vars

\* A probe answered the tenth message of a session that had spent nothing,
\* variant A was selected, and the balance is the one the session began with
C29_SelectedAtNoCost ==
    /\ prefs = <<"User prefers Concise & Analytical tone.">>
    /\ balance = balance0 /\ debitLog = <<>>
    /\ \E i \in 1..Len(messages) :
          /\ ProbeAnswer(messages, i)
          /\ messages[i].status = "done" /\ messages[i].text = "xy"
          /\ messages[i].tokens = <<>> /\ messages[i].cost = <<>>

-----------------------------------------------------------------------------
(* Progress *)

Processing(id) == HasMsg(messages, id) /\ FindMsg(messages, id).status = "processing"

\* C30: when every stream is finite and every tool call and generation call
\* returns or throws, a model message that is 'processing' eventually leaves
\* 'processing', and a loading flag that is set eventually becomes false.
C30_ProcessingEnds ==
    /\ \A id \in 1..LiveMsgs : Processing(id) ~> ~Processing(id)
    /\ isLoading ~> ~isLoading

====
